---------------------------- MODULE Spec2Model ----------------------------
(***************************************************************************)
(* goenv: the version model (internal/version), the tag retrieval pipeline *)
(* (internal/github FetchTags) and their use by the `versions` command.    *)
(*                                                                         *)
(* Strings are sequences of one-character strings, so that parsing,        *)
(* formatting and normalisation are computed character by character.       *)
(***************************************************************************)
EXTENDS Integers, Sequences, FiniteSets, TLC

(***************************************************************************)
(* Bounds of the model.                                                    *)
(***************************************************************************)
\* largest number used for a generated version component (minor, patch, rc)
MaxNum == 1
\* longest input handed to GroupVersions (besides the documented scenario)
MaxInput == 3
\* number of tag entries the remote repository serves during one FetchTags call
MaxRemoteTags == 3
\* number of invocations of the `versions` command in one behaviour
MaxRuns == 2
\* number of tag entries the remote repository serves over all invocations
MaxRunTags == 2
\* page number from which the endless endpoint's pages are told apart no more
MaxLivePage == 3

(***************************************************************************)
(* Characters and numbers: strconv.Atoi, fmt.Sprintf("%d"), strings.*      *)
(***************************************************************************)
Digits == <<"0", "1", "2", "3", "4", "5", "6", "7", "8", "9">>

IsDigit(c) == \E i \in 1..10 : Digits[i] = c

DigitVal(c) == (CHOOSE i \in 1..10 : Digits[i] = c) - 1

\* strconv.Atoi on a non-empty run of decimal digits
RECURSIVE Atoi(_)
Atoi(ds) ==
    IF ds = <<>> THEN 0
    ELSE 10 * Atoi(SubSeq(ds, 1, Len(ds) - 1)) + DigitVal(ds[Len(ds)])

\* fmt.Sprintf("%d", n) for n >= 0
RECURSIVE Itoa(_)
Itoa(n) ==
    IF n < 10 THEN <<Digits[n + 1]>>
    ELSE Itoa(n \div 10) \o <<Digits[(n % 10) + 1]>>

IsSpace(c) == c \in {" ", "\t", "\n"}

\* strings.TrimSpace
RECURSIVE TrimSpace(_)
TrimSpace(s) ==
    IF s = <<>> THEN s
    ELSE IF IsSpace(s[1]) THEN TrimSpace(Tail(s))
    ELSE IF IsSpace(s[Len(s)]) THEN TrimSpace(SubSeq(s, 1, Len(s) - 1))
    ELSE s

\* strings.HasPrefix
HasPrefix(s, p) == Len(s) >= Len(p) /\ SubSeq(s, 1, Len(p)) = p

(***************************************************************************)
(* ParseVersion: ^go(\d+)\.(\d+)(?:\.(\d+))?(?:rc(\d+))?$                  *)
(***************************************************************************)
\* the first position at or after i that holds no digit (the end of a \d* run)
RECURSIVE DigitsEnd(_, _)
DigitsEnd(s, i) ==
    IF i <= Len(s) /\ IsDigit(s[i]) THEN DigitsEnd(s, i + 1) ELSE i

CharAt(s, i) == IF i >= 1 /\ i <= Len(s) THEN s[i] ELSE ""

NoVersion == [ok |-> FALSE]

\* the fields ParseVersion sets, from the submatches of versionRegex
MakeVersion(tag, major, minor, patch, rc, isRC) ==
    [ok |-> TRUE, Tag |-> tag, Major |-> major, Minor |-> minor,
     Patch |-> patch, RC |-> rc, IsRC |-> isRC,
     FullVersion |->
        Itoa(major) \o <<".">> \o Itoa(minor)
        \o (IF patch > 0 THEN <<".">> \o Itoa(patch) ELSE <<>>)
        \o (IF isRC THEN <<"r", "c">> \o Itoa(rc) ELSE <<>>)]

ParseVersion(tag) ==
    IF ~HasPrefix(tag, <<"g", "o">>) THEN NoVersion
    ELSE
    LET m1 == 3
        m2 == DigitsEnd(tag, m1)                 \* major is tag[m1 .. m2-1]
    IN  IF m2 = m1 \/ CharAt(tag, m2) # "." THEN NoVersion
        ELSE
        LET n1 == m2 + 1
            n2 == DigitsEnd(tag, n1)             \* minor is tag[n1 .. n2-1]
        IN  IF n2 = n1 THEN NoVersion
            ELSE
            LET hasPatch == CharAt(tag, n2) = "." /\ DigitsEnd(tag, n2 + 1) > n2 + 1
                p2 == IF hasPatch THEN DigitsEnd(tag, n2 + 1) ELSE n2
                hasRC == /\ CharAt(tag, p2) = "r"
                         /\ CharAt(tag, p2 + 1) = "c"
                         /\ DigitsEnd(tag, p2 + 2) > p2 + 2
                r2 == IF hasRC THEN DigitsEnd(tag, p2 + 2) ELSE p2
            IN  IF r2 # Len(tag) + 1 THEN NoVersion
                ELSE MakeVersion(
                        tag,
                        Atoi(SubSeq(tag, m1, m2 - 1)),
                        Atoi(SubSeq(tag, n1, n2 - 1)),
                        IF hasPatch THEN Atoi(SubSeq(tag, n2 + 1, p2 - 1)) ELSE 0,
                        IF hasRC THEN Atoi(SubSeq(tag, p2 + 2, r2 - 1)) ELSE 0,
                        hasRC)

\* Version.GetMajorMinor: fmt.Sprintf("%d.%d", v.Major, v.Minor)
GetMajorMinor(v) == Itoa(v.Major) \o <<".">> \o Itoa(v.Minor)

\* NormalizeVersion: trim, then prepend "go" unless already there
NormalizeVersion(version) ==
    LET t == TrimSpace(version)
    IN  IF ~HasPrefix(t, <<"g", "o">>) THEN <<"g", "o">> \o t ELSE t

(***************************************************************************)
(* Version.Compare                                                         *)
(***************************************************************************)
\* Compare without the branch `!v.IsRC && other.IsRC`
CompareNoFinalAboveRC(v, other) ==
    IF v.Major # other.Major THEN (IF v.Major < other.Major THEN -1 ELSE 1)
    ELSE IF v.Minor # other.Minor THEN (IF v.Minor < other.Minor THEN -1 ELSE 1)
    ELSE IF v.Patch # other.Patch THEN (IF v.Patch < other.Patch THEN -1 ELSE 1)
    ELSE IF v.IsRC /\ ~other.IsRC THEN -1
    ELSE IF v.IsRC /\ other.IsRC /\ v.RC < other.RC THEN -1
    ELSE IF v.IsRC /\ other.IsRC /\ v.RC > other.RC THEN 1
    ELSE 0

Compare(v, other) ==
    IF v.Major # other.Major THEN (IF v.Major < other.Major THEN -1 ELSE 1)
    ELSE IF v.Minor # other.Minor THEN (IF v.Minor < other.Minor THEN -1 ELSE 1)
    ELSE IF v.Patch # other.Patch THEN (IF v.Patch < other.Patch THEN -1 ELSE 1)
    ELSE IF v.IsRC /\ ~other.IsRC THEN -1
    ELSE IF ~v.IsRC /\ other.IsRC THEN 1
    ELSE IF v.IsRC /\ other.IsRC /\ v.RC < other.RC THEN -1
    ELSE IF v.IsRC /\ other.IsRC /\ v.RC > other.RC THEN 1
    ELSE 0


(***************************************************************************)
(* GroupVersions                                                           *)
(***************************************************************************)
Swap(s, i, j) == [s EXCEPT ![i] = s[j], ![j] = s[i]]

\* all orders in which the elements of the finite set S can be listed
Perms(S) ==
    {f \in [1..Cardinality(S) -> S] : \A i, j \in 1..Cardinality(S) : f[i] = f[j] => i = j}

\* keys of the map `groups` after the first loop
GroupKeys(versions) == {GetMajorMinor(versions[i]) : i \in 1..Len(versions)}

\* groups[key]: the versions of that key, appended in input order
GroupOf(versions, key) ==
    LET Same(v) == GetMajorMinor(v) = key IN SelectSeq(versions, Same)

\* the exchange sort of the versions of one group, loops i and j as written
RECURSIVE SortVersions(_, _, _)
SortVersions(vers, i, j) ==
    IF i >= Len(vers) THEN vers
    ELSE IF j > Len(vers) THEN SortVersions(vers, i + 1, i + 2)
    ELSE SortVersions(IF Compare(vers[i], vers[j]) > 0 THEN Swap(vers, i, j) ELSE vers,
                      i, j + 1)

\* the synthetic version a group key is compared by: ParseVersion("go" + key + ".0")
KeyVersion(majorMinor) == ParseVersion(<<"g", "o">> \o majorMinor \o <<".", "0">>)

\* the groups left in the order the map yielded them
SortGroupsSkipped(result, i, j) == result

\* the exchange sort of the groups
RECURSIVE SortGroups(_, _, _)
SortGroups(result, i, j) ==
    IF i >= Len(result) THEN result
    ELSE IF j > Len(result) THEN SortGroups(result, i + 1, i + 2)
    ELSE SortGroups(
            IF Compare(KeyVersion(result[i].MajorMinor), KeyVersion(result[j].MajorMinor)) > 0
            THEN Swap(result, i, j) ELSE result,
            i, j + 1)

\* GroupVersions; `order` is the order in which `range groups` yields the keys
GroupVersions(versions, order) ==
    LET result == [k \in 1..Len(order) |->
                      [MajorMinor |-> order[k],
                       Versions |-> SortVersions(GroupOf(versions, order[k]), 1, 2)]]
    IN  SortGroups(result, 1, 2)

(***************************************************************************)
(* Tag names used as inputs                                                *)
(***************************************************************************)
go1_9 == <<"g", "o", "1", ".", "9">>
go1_10 == <<"g", "o", "1", ".", "1", "0">>
go1_21_0 == <<"g", "o", "1", ".", "2", "1", ".", "0">>
go1_21_5 == <<"g", "o", "1", ".", "2", "1", ".", "5">>
go1_22 == <<"g", "o", "1", ".", "2", "2">>
go1_22rc1 == <<"g", "o", "1", ".", "2", "2", "r", "c", "1">>
go1_22rc2 == <<"g", "o", "1", ".", "2", "2", "r", "c", "2">>
go1_22_0 == <<"g", "o", "1", ".", "2", "2", ".", "0">>
go1_22_1 == <<"g", "o", "1", ".", "2", "2", ".", "1">>
go2_0 == <<"g", "o", "2", ".", "0">>
weekly == <<"w", "e", "e", "k", "l", "y">>

\* a tag written from its components; a component of -1 is left out
FormatTag(major, minor, patch, rc) ==
    <<"g", "o">> \o Itoa(major) \o <<".">> \o Itoa(minor)
    \o (IF patch >= 0 THEN <<".">> \o Itoa(patch) ELSE <<>>)
    \o (IF rc >= 0 THEN <<"r", "c">> \o Itoa(rc) ELSE <<>>)

\* go1.<minor>[.<patch>][rc<n>] for every small minor, patch and candidate number
GenTags ==
    {FormatTag(1, mi, p, r) : mi \in 0..MaxNum, p \in -1..MaxNum, r \in -1..MaxNum}

CompareTags ==
    GenTags \cup {go1_9, go1_10, go1_21_5, go1_22, go1_22rc1, go1_22rc2,
                  go1_22_0, go1_22_1, go2_0}

GroupTags == {go1_9, go1_10, go1_22, go1_22rc1, go1_22_0}

ScenarioInput == <<go1_22_1, go1_22rc1, go1_21_0, go1_22_0>>

RECURSIVE Flatten(_)
Flatten(seqs) == IF seqs = <<>> THEN <<>> ELSE Head(seqs) \o Flatten(Tail(seqs))

SeqsUpTo(S, n) == UNION {[1..k -> S] : k \in 0..n}

ParseAll(tagSeq) == [i \in 1..Len(tagSeq) |-> ParseVersion(tagSeq[i])]

VARIABLES cmpIn, cmpOut, grpPc, grpIn, grpOut, grpIn2, grpOut2

\* FetchTags: its arguments, its locals, the context, and what it returned
VARIABLES pc, existingTags, opts, minVersion, allTags, page, allExistingFound,
          tags, idx, existingCount, resp, ctxDone, retTags, retErr

\* history of one FetchTags call: the page numbers requested, the pages served
VARIABLES requests, pages

\* ParseVersion: its argument and what it returned
VARIABLES parseIn, parseOut

\* the `versions` command: the cache file, the clock, and one invocation's
\* position, inputs, loaded cache and displayed catalog
VARIABLES rvPc, cache, cacheBefore, now, runs, inv, displayed, servedBefore

parseVars == <<parseIn, parseOut>>
runVars == <<rvPc, cache, cacheBefore, now, runs, inv, displayed, servedBefore>>
restVars == <<parseVars, runVars>>

cmpVars == <<cmpIn, cmpOut>>
grpVars == <<grpPc, grpIn, grpOut, grpIn2, grpOut2>>
fetchVars == <<pc, existingTags, opts, minVersion, allTags, page, allExistingFound,
               tags, idx, existingCount, resp, ctxDone, retTags, retErr,
               requests, pages>>
vars == <<cmpVars, grpVars, fetchVars, restVars>>

(***************************************************************************)
(* SpecCompare: Compare applied to every triple of parsed versions         *)
(***************************************************************************)
NoOptions == [MinVersion |-> <<>>, MinYear |-> 0, AllVersions |-> FALSE]
NoResponse == [err |-> "none", StatusCode |-> 0, NextPage |-> 0]

\* the locals of FetchTags before the call has set them
FetchLocalsUnset ==
    /\ minVersion = NoVersion /\ allTags = <<>> /\ page = 0
    /\ allExistingFound = FALSE /\ tags = <<>> /\ idx = 0 /\ existingCount = 0
    /\ resp = NoResponse /\ ctxDone = FALSE /\ retTags = <<>> /\ retErr = "none"
    /\ requests = <<>> /\ pages = <<>>

FetchIdle == pc = "idle" /\ existingTags = {} /\ opts = NoOptions /\ FetchLocalsUnset

\* no cache file: LoadVersions returns (nil, nil)
NoCache == [exists |-> FALSE, FetchedAt |-> 0, Groups |-> <<>>]

\* the flags and answers of an invocation before it has started
NoInvocation ==
    [update |-> FALSE, loadErr |-> FALSE, prompted |-> FALSE, answer |-> <<>>]

ParseIdle == parseIn = <<>> /\ parseOut = <<>>

RunIdle ==
    /\ rvPc = "idle" /\ cache = NoCache /\ cacheBefore = NoCache /\ now = 0 /\ runs = 0
    /\ inv = NoInvocation /\ displayed = NoCache /\ servedBefore = 0

RestIdle == ParseIdle /\ RunIdle

CmpIdle == cmpIn = <<>> /\ cmpOut = <<>>
GrpIdle == grpPc = "idle" /\ grpIn = <<>> /\ grpOut = <<>> /\ grpIn2 = <<>> /\ grpOut2 = <<>>

InitCompare ==
    /\ \E a \in CompareTags, b \in CompareTags, c \in CompareTags : cmpIn = <<a, b, c>>
    /\ cmpOut = <<>>
    /\ GrpIdle /\ FetchIdle /\ RestIdle

CompareCall ==
    /\ cmpIn # <<>> /\ cmpOut = <<>>
    /\ LET a == ParseVersion(cmpIn[1])
           b == ParseVersion(cmpIn[2])
           c == ParseVersion(cmpIn[3])
       IN  cmpOut' = [ab |-> Compare(a, b), ba |-> Compare(b, a),
                      bc |-> Compare(b, c), ac |-> Compare(a, c)]
    /\ UNCHANGED <<cmpIn, grpVars, fetchVars, restVars>>

NextCompare == CompareCall

SpecCompare == InitCompare /\ [][NextCompare]_vars

(***************************************************************************)
(* SpecGroup: GroupVersions on an input, then again on a reordering of it  *)
(***************************************************************************)
InitGroup ==
    /\ grpPc = "start"
    /\ grpIn \in SeqsUpTo(GroupTags, MaxInput) \cup {ScenarioInput}
    /\ grpOut = <<>> /\ grpIn2 = <<>> /\ grpOut2 = <<>>
    /\ CmpIdle /\ FetchIdle /\ RestIdle

GroupCall ==
    /\ grpPc = "start"
    /\ \E order \in Perms(GroupKeys(ParseAll(grpIn))) :
          grpOut' = GroupVersions(ParseAll(grpIn), order)
    /\ grpPc' = "grouped"
    /\ UNCHANGED <<grpIn, grpIn2, grpOut2, cmpVars, fetchVars, restVars>>

RegroupCall ==
    /\ grpPc = "grouped"
    /\ \E p \in Perms(1..Len(grpIn)) :
          /\ grpIn2' = [i \in 1..Len(grpIn) |-> grpIn[p[i]]]
          /\ \E order \in Perms(GroupKeys(ParseAll(grpIn))) :
                grpOut2' = GroupVersions(ParseAll(grpIn2'), order)
    /\ grpPc' = "regrouped"
    /\ UNCHANGED <<grpIn, grpOut, cmpVars, fetchVars, restVars>>

NextGroup == GroupCall \/ RegroupCall

SpecGroup == InitGroup /\ [][NextGroup]_vars


(***************************************************************************)
(* FetchTags                                                               *)
(***************************************************************************)
DefaultMinVersion == go1_10
PerPage == 100
StatusOK == 200

\* the tag names the remote repository may hold
RemoteNames == {go1_9, go1_21_5, go1_22_0, weekly}

ExistingChoices == {{}, {go1_21_5, go1_22_0}}

latest == <<"l", "a", "t", "e", "s", "t">>

\* the option combinations a call is made with: no minimum or go1.22 with each
\* minimum year, a minimum that needs normalising, one that does not parse,
\* and AllVersions together with the options it overrides
FetchOptionChoices ==
    [MinVersion : {<<>>, go1_22}, MinYear : {0, 2015, 2016}, AllVersions : {FALSE}]
    \cup [MinVersion : {<<" ", "1", ".", "2", "2">>}, MinYear : {0}, AllVersions : {FALSE}]
    \cup [MinVersion : {latest}, MinYear : {0, 2016}, AllVersions : BOOLEAN]
    \cup [MinVersion : {go1_22}, MinYear : {2016}, AllVersions : {TRUE}]

\* opts.MinVersion after the default has been applied
EffectiveMinVersion(o) ==
    IF o.MinVersion = <<>> /\ ~o.AllVersions THEN DefaultMinVersion ELSE o.MinVersion

\* minVersion, parseErr of the option block: `ok` is parseErr == nil, `v` is
\* minVersion (NoVersion when no minimum applies)
MinVersionAlwaysResolves(o) ==
    LET m == EffectiveMinVersion(o)
        v == ParseVersion(NormalizeVersion(m))
    IN  IF m # <<>> /\ ~o.AllVersions
        THEN [ok |-> TRUE, v |-> IF v.ok THEN v ELSE ParseVersion(DefaultMinVersion)]
        ELSE [ok |-> TRUE, v |-> NoVersion]

ResolveMinVersion(o) ==
    LET m == EffectiveMinVersion(o)
    IN  IF m # <<>> /\ ~o.AllVersions
        THEN LET v == ParseVersion(NormalizeVersion(m)) IN [ok |-> v.ok, v |-> v]
        ELSE [ok |-> TRUE, v |-> NoVersion]

\* estimatedYear := 2012 + (v.Major-1)*1 + (v.Minor/6)*1
EstimatedYear(v) == 2012 + (v.Major - 1) * 1 + (v.Minor \div 6) * 1

\* the minimum version compared with `<=` instead of `<`
ShouldIncludeStrictlyAbove(v, o, minV) ==
    IF o.AllVersions THEN TRUE
    ELSE LET byVersion == ~(minV.ok /\ Compare(v, minV) <= 0)
         IN  IF o.MinYear > 0 /\ byVersion
             THEN ~(EstimatedYear(v) < o.MinYear)
             ELSE byVersion

\* shouldInclude after the filter block
ShouldInclude(v, o, minV) ==
    IF o.AllVersions THEN TRUE
    ELSE LET byVersion == ~(minV.ok /\ Compare(v, minV) < 0)
         IN  IF o.MinYear > 0 /\ byVersion
             THEN ~(EstimatedYear(v) < o.MinYear)
             ELSE byVersion

\* a failure that returns nothing of what was fetched
FailureDropsTags(acc, err) == [tags |-> <<>>, err |-> err]

\* return allTags, fetchErr
FailureResult(acc, err) == [tags |-> acc, err |-> err]

\* the early stop never taken
EarlyStopNever(count, n) == FALSE

\* the early stop taken at the first known entry of a page
EarlyStopOnFirstKnown(count, n) == count >= 1

\* existingCount == len(tags)
EarlyStop(count, n) == count = n

\* the new tag put in front of the ones collected before
PrependTag(acc, tagName) == <<tagName>> \o acc

\* allTags = append(allTags, tagName)
AppendTag(acc, tagName) == Append(acc, tagName)

\* every status taken for a success
StatusAlwaysGood(r) == TRUE

\* resp != nil && resp.StatusCode != http.StatusOK, negated
StatusGood(r) == r.StatusCode = StatusOK

InitFetch ==
    /\ pc = "start"
    /\ existingTags \in ExistingChoices
    /\ opts \in FetchOptionChoices
    /\ FetchLocalsUnset
    /\ CmpIdle /\ GrpIdle /\ RestIdle

Return(result) ==
    /\ retTags' = result.tags
    /\ retErr' = result.err
    /\ pc' = "done"

\* the options applied, the minimum version parsed, the context and locals set up
ResolveOptions ==
    /\ pc = "start"
    /\ LET r == ResolveMinVersion(opts)
       IN  /\ opts' = [opts EXCEPT !.MinVersion = EffectiveMinVersion(opts)]
           /\ IF ~r.ok
              THEN /\ Return([tags |-> <<>>, err |-> "InvalidMinVersion"])
                   /\ UNCHANGED <<minVersion, page>>
              ELSE /\ minVersion' = r.v
                   /\ page' = 1
                   /\ pc' = "loop"
                   /\ UNCHANGED <<retTags, retErr>>
    /\ UNCHANGED <<existingTags, allTags, allExistingFound, tags, idx, existingCount,
                   resp, ctxDone, requests, pages, cmpVars, grpVars, restVars>>

\* a context whose deadline never expires
DeadlineNeverFires == FALSE /\ UNCHANGED vars

\* the overall deadline of the context expires
DeadlineFires ==
    /\ pc \in {"loop", "inflight", "process", "after"}
    /\ ~ctxDone
    /\ ctxDone' = TRUE
    /\ UNCHANGED <<pc, existingTags, opts, minVersion, allTags, page, allExistingFound,
                   tags, idx, existingCount, resp, retTags, retErr, requests, pages,
                   cmpVars, grpVars, restVars>>

\* top of the loop: case <-ctx.Done()
CheckDeadline ==
    /\ pc = "loop"
    /\ ctxDone
    /\ Return(FailureResult(allTags, "Timeout"))
    /\ UNCHANGED <<existingTags, opts, minVersion, allTags, page, allExistingFound,
                   tags, idx, existingCount, resp, ctxDone, requests, pages,
                   cmpVars, grpVars, restVars>>

\* top of the loop: default, then client.Repositories.ListTags is called
IssueRequest ==
    /\ pc = "loop"
    /\ ~ctxDone
    /\ requests' = Append(requests, page)
    /\ pc' = "inflight"
    /\ UNCHANGED <<existingTags, opts, minVersion, allTags, page, allExistingFound,
                   tags, idx, existingCount, resp, ctxDone, retTags, retErr, pages,
                   cmpVars, grpVars, restVars>>

\* ListTags returns err != nil; with the context expired the request is
\* abandoned and the error is the context's, which is no rate-limit error
ResponseError ==
    /\ pc = "inflight"
    /\ \E kind \in IF ctxDone THEN {"RequestFailed"}
                   ELSE {"RateLimit", "AbuseRateLimit", "RequestFailed"} :
          /\ resp' = [err |-> kind, StatusCode |-> 0, NextPage |-> 0]
          /\ Return(FailureResult(allTags, kind))
    /\ UNCHANGED <<existingTags, opts, minVersion, allTags, page, allExistingFound,
                   tags, idx, existingCount, ctxDone, requests, pages,
                   cmpVars, grpVars, restVars>>

\* ListTags returns err == nil: the status check, the empty page, or a page to process.
\* The page holds any tag names (at most PerPage, and no more than the remote
\* has left); resp.NextPage is taken from the Link header, which names the
\* following page or is absent (0).
ResponseArrives ==
    /\ pc = "inflight"
    /\ ~ctxDone
    /\ \E status \in {StatusOK, 202},
          served \in SeqsUpTo(RemoteNames, MaxRemoteTags - Len(Flatten(pages))),
          next \in {0, page + 1} :
          /\ Len(served) <= PerPage
          /\ status # StatusOK => served = <<>> /\ next = 0
          /\ resp' = [err |-> "nil", StatusCode |-> status, NextPage |-> next]
          /\ IF ~StatusGood(resp')
             THEN /\ Return(FailureResult(allTags, "BadStatus"))
                  /\ UNCHANGED <<tags, idx, existingCount, pages>>
             ELSE /\ pages' = Append(pages, served)
                  /\ tags' = served
                  /\ idx' = 1
                  /\ existingCount' = 0
                  /\ IF Len(served) = 0
                     THEN Return([tags |-> allTags, err |-> "nil"])
                     ELSE pc' = "process" /\ UNCHANGED <<retTags, retErr>>
    /\ UNCHANGED <<existingTags, opts, minVersion, allTags, page, allExistingFound,
                   ctxDone, requests, cmpVars, grpVars, restVars>>

\* one iteration of `for _, tag := range tags`
ProcessTag ==
    /\ pc = "process"
    /\ idx <= Len(tags)
    /\ LET tagName == tags[idx]
           v == ParseVersion(tagName)
       IN  IF tagName \in existingTags
           THEN /\ existingCount' = existingCount + 1
                /\ IF EarlyStop(existingCount', Len(tags))
                   THEN allExistingFound' = TRUE /\ pc' = "after" /\ idx' = idx
                   ELSE /\ UNCHANGED allExistingFound
                        /\ idx' = idx + 1
                        /\ pc' = IF idx' > Len(tags) THEN "after" ELSE "process"
                /\ UNCHANGED allTags
           ELSE /\ allTags' = IF v.ok /\ ShouldInclude(v, opts, minVersion)
                              THEN AppendTag(allTags, tagName) ELSE allTags
                /\ idx' = idx + 1
                /\ pc' = IF idx' > Len(tags) THEN "after" ELSE "process"
                /\ UNCHANGED <<existingCount, allExistingFound>>
    /\ UNCHANGED <<existingTags, opts, minVersion, page, tags, resp, ctxDone,
                   retTags, retErr, requests, pages, cmpVars, grpVars, restVars>>

\* after the page: early stop, last page, or on to resp.NextPage
AfterPage ==
    /\ pc = "after"
    /\ IF allExistingFound \/ resp.NextPage = 0
       THEN Return([tags |-> allTags, err |-> "nil"]) /\ UNCHANGED page
       ELSE page' = resp.NextPage /\ pc' = "loop" /\ UNCHANGED <<retTags, retErr>>
    /\ UNCHANGED <<existingTags, opts, minVersion, allTags, allExistingFound, tags, idx,
                   existingCount, resp, ctxDone, requests, pages, cmpVars, grpVars, restVars>>

Next ==
    \/ ResolveOptions
    \/ DeadlineFires
    \/ CheckDeadline
    \/ IssueRequest
    \/ ResponseError
    \/ ResponseArrives
    \/ ProcessTag
    \/ AfterPage

Spec == InitFetch /\ [][Next]_vars

(***************************************************************************)
(* Claims about the version model                                          *)
(***************************************************************************)
SameRelease(a, b) == a.Major = b.Major /\ a.Minor = b.Minor /\ a.Patch = b.Patch

\* C1: for parsed versions a, b, c, Compare is antisymmetric
\* (Compare(a,b) = -Compare(b,a)) and transitive; with equal
\* (major, minor, patch) a release candidate is strictly less than a
\* non-candidate, and of two candidates the smaller RC number is strictly less.
C1_CompareIsOrder ==
    cmpOut # <<>> =>
        LET a == ParseVersion(cmpIn[1])
            b == ParseVersion(cmpIn[2])
        IN  /\ a.ok /\ b.ok /\ ParseVersion(cmpIn[3]).ok
            /\ cmpOut.ab = -cmpOut.ba
            /\ (cmpOut.ab <= 0 /\ cmpOut.bc <= 0 => cmpOut.ac <= 0)
            /\ (SameRelease(a, b) /\ a.IsRC /\ ~b.IsRC => cmpOut.ab < 0 /\ cmpOut.ba > 0)
            /\ (SameRelease(a, b) /\ a.IsRC /\ b.IsRC /\ a.RC < b.RC => cmpOut.ab < 0)

\* a candidate, the final release of the same (major, minor, patch), a later patch
C1_Witness ==
    /\ cmpIn = <<go1_22rc1, go1_22_0, go1_22_1>>
    /\ cmpOut # <<>>
    /\ cmpOut.ab = -1 /\ cmpOut.ba = 1 /\ cmpOut.bc = -1 /\ cmpOut.ac = -1

GroupKeySeq(out) == [k \in 1..Len(out) |-> out[k].MajorMinor]
GroupTagSeq(group) == [k \in 1..Len(group.Versions) |-> group.Versions[k].Tag]
GroupTagSeqs(out) == [k \in 1..Len(out) |-> GroupTagSeq(out[k])]

DistinctTags(tagSeq) == \A i, j \in 1..Len(tagSeq) : tagSeq[i] = tagSeq[j] => i = j

\* C2: for a set of parsed versions with pairwise distinct tags, any two
\* orderings of it give GroupVersions the identical output: the same
\* sequence of group keys and, in each group, the same sequence of tags.
C2_GroupingIgnoresInputOrder ==
    (grpPc = "regrouped" /\ DistinctTags(grpIn)) =>
        /\ GroupKeySeq(grpOut2) = GroupKeySeq(grpOut)
        /\ GroupTagSeqs(grpOut2) = GroupTagSeqs(grpOut)

Count(tagSeq, t) == Cardinality({i \in 1..Len(tagSeq) : tagSeq[i] = t})

\* (major, minor) of a group, read off its first version
GroupBefore(g, h) ==
    \/ g.Versions[1].Major < h.Versions[1].Major
    \/ /\ g.Versions[1].Major = h.Versions[1].Major
       /\ g.Versions[1].Minor < h.Versions[1].Minor

\* C3: GroupVersions returns one group per distinct (major, minor) of the
\* input; every input version is in the output exactly once, in the group
\* keyed by its "major.minor"; each group is ascending by Compare; the
\* groups are ascending by numeric (major, minor); and the documented
\* scenario gives 1.21 = [go1.21.0], 1.22 = [go1.22rc1, go1.22.0, go1.22.1].
C3_GroupingIsPartitionSorted ==
    grpPc \in {"grouped", "regrouped"} =>
        LET in == ParseAll(grpIn)
            outTags == Flatten(GroupTagSeqs(grpOut))
        IN  /\ DistinctTags(GroupKeySeq(grpOut))
            /\ {grpOut[k].MajorMinor : k \in 1..Len(grpOut)} = GroupKeys(in)
            /\ \A t \in GroupTags \cup {go1_21_0, go1_22_1} :
                  Count(outTags, t) = Count(grpIn, t)
            /\ \A k \in 1..Len(grpOut) :
                  /\ grpOut[k].Versions # <<>>
                  /\ \A i \in 1..Len(grpOut[k].Versions) :
                        GetMajorMinor(grpOut[k].Versions[i]) = grpOut[k].MajorMinor
                  /\ \A i, j \in 1..Len(grpOut[k].Versions) :
                        i < j => Compare(grpOut[k].Versions[i], grpOut[k].Versions[j]) <= 0
            /\ \A k, l \in 1..Len(grpOut) : k < l => GroupBefore(grpOut[k], grpOut[l])
            /\ (grpIn = ScenarioInput =>
                  /\ GroupKeySeq(grpOut) = << <<"1", ".", "2", "1">>, <<"1", ".", "2", "2">> >>
                  /\ GroupTagSeqs(grpOut) = << <<go1_21_0>>, <<go1_22rc1, go1_22_0, go1_22_1>> >>)

\* the scenario grouped, and an input where group 1.9 must precede group 1.10
C3_Witness ==
    /\ grpPc = "grouped"
    /\ \/ grpIn = ScenarioInput /\ Len(grpOut) = 2
       \/ /\ grpIn = <<go1_10, go1_22, go1_9>>
          /\ GroupTagSeqs(grpOut) = << <<go1_9>>, <<go1_10>>, <<go1_22>> >>


(***************************************************************************)
(* Claims about FetchTags                                                  *)
(***************************************************************************)
\* the tag names whose loop iteration has run, in the order they were served
Seen ==
    LET all == Flatten(pages)
        waiting == IF pc = "process" THEN Len(tags) - idx + 1 ELSE 0
    IN  SubSeq(all, 1, Len(all) - waiting)

\* the call got past its option block
OptionsResolved ==
    \/ pc \in {"loop", "inflight", "process", "after"}
    \/ pc = "done" /\ retErr # "InvalidMinVersion"

\* ParseVersion of every tag name the remote may serve
RemoteVersion == [t \in RemoteNames |-> ParseVersion(t)]

\* for every minimum version a call may be given: that version normalised and
\* parsed, or the builtin floor go1.10 when none is given
ThresholdFor ==
    [m \in {o.MinVersion : o \in FetchOptionChoices} \cup {go1_10} |->
        ParseVersion(NormalizeVersion(IF m = <<>> THEN go1_10 ELSE m))]

Threshold == ThresholdFor[opts.MinVersion]

\* the condition under which a served tag name belongs to the result, given
\* the threshold version
WantedAbove(t, threshold) ==
    LET v == RemoteVersion[t]
    IN  /\ t \notin existingTags
        /\ v.ok
        /\ \/ opts.AllVersions
           \/ /\ Compare(v, threshold) >= 0
              /\ \/ opts.MinYear = 0
                 \/ 2012 + (v.Major - 1) + (v.Minor \div 6) >= opts.MinYear

RequestErrors == {"RateLimit", "AbuseRateLimit", "RequestFailed", "BadStatus"}

\* C4: when the request for page k fails (rate limit, abuse rate limit, other
\* request error, non-200 status), no further page is requested and the call
\* returns the classified error with exactly the tags appended while
\* processing pages 1..k-1, in their order.
C4_FailureKeepsEarlierPages ==
    (pc = "done" /\ retErr \in RequestErrors) =>
        /\ requests = [k \in 1..(Len(pages) + 1) |-> k]
        /\ LET threshold == Threshold
               Wanted(t) == WantedAbove(t, threshold)
           IN  retTags = SelectSeq(Flatten(pages), Wanted)

\* page 1 served with a new tag, page 2 refused by the rate limit
C4_Witness ==
    /\ pc = "done" /\ retErr = "RateLimit"
    /\ requests = <<1, 2>> /\ Len(pages) = 1
    /\ retTags = <<go1_22_0>>

AllKnown(served) == \A i \in 1..Len(served) : served[i] \in existingTags

\* C5: when the first page served is non-empty and every tag name on it is
\* in existingTags, page 2 is never requested, and the call returns no new
\* tags and a nil error after exactly one request, also when the response
\* reports a next page.
C5_KnownFirstPageStops ==
    (pages # <<>> /\ pages[1] # <<>> /\ AllKnown(pages[1])) =>
        /\ requests = <<1>>
        /\ Len(pages) = 1
        /\ pc \in {"process", "after", "done"}
        /\ pc = "done" => retTags = <<>> /\ retErr = "nil"

\* a first page of two known tags whose response announces page 2
C5_Witness ==
    /\ pc = "done" /\ retErr = "nil" /\ retTags = <<>>
    /\ pages = << <<go1_22_0, go1_21_5>> >>
    /\ resp.NextPage = 2
    /\ requests = <<1>>

\* C6: a served tag name is appended iff it is not in existingTags, parses,
\* and either allVersions is set or it compares >= the threshold (minVersion,
\* or go1.10 when none is given) and minYear is unset or its estimated year
\* 2012 + (major-1) + (minor div 6) is >= minYear.
C6_AppendedIffWanted ==
    OptionsResolved =>
        LET threshold == Threshold
            Wanted(t) == WantedAbove(t, threshold)
        IN  allTags = SelectSeq(Seen, Wanted)

\* minVersion go1.22 with go1.21.5 and go1.22.0 served: only go1.22.0 is kept
C6_Witness ==
    /\ pc = "after"
    /\ opts.MinVersion = go1_22 /\ ~opts.AllVersions /\ opts.MinYear = 0
    /\ existingTags = {}
    /\ pages = << <<go1_21_5, go1_22_0>> >>
    /\ allTags = <<go1_22_0>>

\* C7: whenever the overall deadline ends the call, between two page requests
\* or while a request is in flight, the call returns the tags accumulated so
\* far with an error classified as Timeout.
C7_DeadlineGivesTimeout ==
    (pc = "done" /\ ctxDone /\ retErr # "nil") =>
        /\ retErr = "Timeout"
        /\ retTags = allTags

\* C8: when allVersions is not set and the supplied minVersion does not
\* parse after NormalizeVersion, the call returns no tags and a non-nil
\* error and issues no page request.
C8_InvalidMinVersionAborts ==
    (/\ ~opts.AllVersions
     /\ opts.MinVersion # <<>>
     /\ ~ParseVersion(NormalizeVersion(opts.MinVersion)).ok
     /\ pc # "idle") =>
        /\ requests = <<>>
        /\ pc \in {"start", "done"}
        /\ pc = "done" => retTags = <<>> /\ retErr \notin {"nil", "none"}

C8_Witness ==
    /\ pc = "done"
    /\ opts.MinVersion = latest /\ ~opts.AllVersions
    /\ retErr = "InvalidMinVersion" /\ retTags = <<>> /\ requests = <<>>

InResult(t) == \E i \in 1..Len(allTags) : allTags[i] = t

\* C9: page requests are issued one at a time with page numbers 1, 2, 3, ...;
\* a request for the next page is issued only after every tag of the current
\* page has been processed; the result lists the new tags in the order they
\* were first served.
C9_SequentialInDiscoveryOrder ==
    pc # "idle" =>
        /\ requests = [k \in 1..Len(requests) |-> k]
        /\ Len(pages) <= Len(requests) /\ Len(requests) <= Len(pages) + 1
        /\ (pc \in {"loop", "inflight"} /\ pages # <<>>) =>
              tags = pages[Len(pages)] /\ idx = Len(tags) + 1
        /\ pc \in {"process", "after"} => Len(requests) = Len(pages)
        /\ allTags = SelectSeq(Seen, InResult)
        /\ (pc = "done" /\ retErr # "InvalidMinVersion") => retTags = allTags

\* two pages, each contributing one new tag
C9_Witness ==
    /\ pc = "done" /\ requests = <<1, 2>>
    /\ pages = << <<go1_22_0>>, <<weekly, go1_21_5>> >>
    /\ retTags = <<go1_22_0, go1_21_5>>

\* C10: the error is nil exactly when pagination ended by an empty page, by
\* the early stop, or by a response without a next page, and then every
\* accumulated tag is returned; every other return carries an error; a tag
\* that does not parse produces no error.
C10_NilErrorIffCleanEnd ==
    pc = "done" =>
        /\ retErr # "none"
        /\ retErr = "nil" <=>
              /\ resp.err = "nil" /\ resp.StatusCode = StatusOK
              /\ tags = <<>> \/ AllKnown(tags) \/ resp.NextPage = 0
        /\ retErr = "nil" => retTags = allTags /\ pages # <<>> /\ tags = pages[Len(pages)]

\* a last page holding a tag that does not parse, returned without error
C10_Witness ==
    /\ pc = "done" /\ retErr = "nil"
    /\ pages = << <<weekly, go1_22_0>> >>
    /\ resp.NextPage = 0
    /\ retTags = <<go1_22_0>>


(***************************************************************************)
(* SpecParse: ParseVersion applied to tags the grammar accepts and to      *)
(* strings it rejects                                                      *)
(***************************************************************************)
\* go<major>.<minor>[.<patch>][rc<n>] for every small component, 0 included
WellFormedTags ==
    {FormatTag(ma, mi, p, r) :
        ma \in 0..MaxNum, mi \in 0..MaxNum, p \in -1..MaxNum, r \in -1..MaxNum}

\* strings outside the grammar: no "go" prefix, a trailing "rc" or "." without
\* digits, a leading blank, a "v" prefix
MalformedTags ==
    UNION {{Tail(Tail(t)), t \o <<"r", "c">>, t \o <<".">>, <<" ">> \o t,
            <<"v">> \o Tail(Tail(t))} : t \in WellFormedTags}

ParseInputs == WellFormedTags \cup MalformedTags \cup {go1_22rc2, go1_21_5, weekly}

InitParse ==
    /\ parseIn \in ParseInputs
    /\ parseOut = <<>>
    /\ CmpIdle /\ GrpIdle /\ FetchIdle /\ RunIdle

ParseCall ==
    /\ parseIn # <<>> /\ parseOut = <<>>
    /\ parseOut' = ParseVersion(parseIn)
    /\ UNCHANGED <<parseIn, cmpVars, grpVars, fetchVars, runVars>>

NextParse == ParseCall

SpecParse == InitParse /\ [][NextParse]_vars

(***************************************************************************)
(* Claims about ParseVersion                                               *)
(***************************************************************************)
\* the number of "." characters of a string
RECURSIVE DotCount(_)
DotCount(s) ==
    IF s = <<>> THEN 0
    ELSE (IF Head(s) = "." THEN 1 ELSE 0) + DotCount(Tail(s))

\* an accepted tag carries a patch component exactly when it has a second "."
CarriesPatch(tag) == DotCount(tag) = 2

\* C13: every Version returned by ParseVersion has RC >= 1 when IsRC is true
\* and RC = 0 when IsRC is false, and has Patch = 0 when the tag carries no
\* patch component.
C13_CandidateNumberPositive ==
    (parseOut # <<>> /\ parseOut.ok) =>
        /\ (parseOut.IsRC => parseOut.RC >= 1)
        /\ (~parseOut.IsRC => parseOut.RC = 0)
        /\ (~CarriesPatch(parseIn) => parseOut.Patch = 0)

(***************************************************************************)
(* Claims about the end of a page in FetchTags                             *)
(***************************************************************************)
\* C14: after a non-empty page has been processed, the early stop is taken
\* iff every entry of the page is in existingTags; a page with an entry that
\* is not in existingTags (added, filtered out or unparsable) never triggers
\* it, the call then ends with a nil error only when the response reports no
\* next page, and otherwise the loop goes on with page resp.NextPage.
C14_EarlyStopIffAllKnown ==
    /\ pc = "after" => (tags # <<>> /\ (allExistingFound <=> AllKnown(tags)))
    /\ (pc = "done" /\ retErr = "nil" /\ tags # <<>>) =>
            /\ allExistingFound <=> AllKnown(tags)
            /\ ~allExistingFound => resp.NextPage = 0
    /\ (pc \in {"loop", "inflight"} /\ pages # <<>>) =>
            /\ tags # <<>> /\ ~AllKnown(tags) /\ ~allExistingFound
            /\ resp.NextPage # 0 /\ page = resp.NextPage
            /\ Len(requests) \in {Len(pages), Len(pages) + 1}

\* a first page with a known and an unparsable entry, then the request of page 2
C14_Witness ==
    /\ go1_22_0 \in existingTags
    /\ pages = << <<go1_22_0, weekly>> >>
    /\ ~allExistingFound
    /\ requests = <<1, 2>>

(***************************************************************************)
(* SpecVersions: the `versions` command (runVersions) run repeatedly,      *)
(* starting without a cache file; each refresh calls FetchTags             *)
(***************************************************************************)
UpperCase == <<"A", "B", "C", "D", "E", "F", "G", "H", "I", "J", "K", "L", "M",
               "N", "O", "P", "Q", "R", "S", "T", "U", "V", "W", "X", "Y", "Z">>
LowerCase == <<"a", "b", "c", "d", "e", "f", "g", "h", "i", "j", "k", "l", "m",
               "n", "o", "p", "q", "r", "s", "t", "u", "v", "w", "x", "y", "z">>

\* strings.ToLower
ToLower(s) ==
    [i \in 1..Len(s) |->
        IF \E k \in 1..26 : UpperCase[k] = s[i]
        THEN LowerCase[CHOOSE k \in 1..26 : UpperCase[k] = s[i]]
        ELSE s[i]]

\* askForUpdate accepting whatever was typed
AskAlwaysYes(answer) == TRUE

\* askForUpdate on the line read from stdin
askForUpdate(answer) ==
    LET response == TrimSpace(ToLower(answer))
    IN  response = <<"y">> \/ response = <<"y", "e", "s">>

\* what the user may type at the prompt: y, " YES", n, an empty line, "yep",
\* end of input
AnswerChoices ==
    {<<"y", "\n">>, <<" ", "Y", "E", "S", "\n">>,
     <<"n", "\n">>, <<"\n">>, <<"y", "e", "p", "\n">>, <<>>}

\* the flags --all, --min-version, --min-year
FlagChoices ==
    {[all |-> FALSE, minVersion |-> <<>>, minYear |-> 0],
     [all |-> TRUE, minVersion |-> latest, minYear |-> 2016],
     [all |-> FALSE, minVersion |-> latest, minYear |-> 0],
     [all |-> FALSE, minVersion |-> go1_22, minYear |-> 2016]}

\* the fetch options built from the flags
FlagOptions(flags) ==
    IF flags.all
    THEN [MinVersion |-> <<>>, MinYear |-> 0, AllVersions |-> TRUE]
    ELSE [MinVersion |-> flags.minVersion,
          MinYear |-> IF flags.minYear > 0 THEN flags.minYear ELSE 0,
          AllVersions |-> FALSE]

\* every version of a catalog, group after group
CatalogVersions(c) ==
    Flatten([k \in 1..Len(c.Groups) |-> c.Groups[k].Versions])

CatalogTagSeq(c) ==
    LET vs == CatalogVersions(c) IN [i \in 1..Len(vs) |-> vs[i].Tag]

\* existingTags[v.Tag] = true for every cached version
ExistingTagsOf(c) == {CatalogTagSeq(c)[i] : i \in 1..Len(CatalogTagSeq(c))}

\* the fetched tags parsed, unparsable ones skipped, v.FetchedAt = time.Now()
NewVersions(fetched, t) ==
    LET parsed == SelectSeq(ParseAll(fetched), LAMBDA v : v.ok)
    IN  [i \in 1..Len(parsed) |-> [FetchedAt |-> t] @@ parsed[i]]

\* the merge keeping only the newly fetched versions
MergeDropsCached(cached, fresh) == fresh

\* allVersionsList: the cached versions, then the new ones
MergeVersions(cached, fresh) == cached \o fresh

\* the tag entries served so far over all invocations
ServedInAll == servedBefore + Len(Flatten(pages))

\* the tag names the remote repository serves to the `versions` command
RunRemoteNames == {go1_21_5, go1_22_0, weekly}

WithinRunBudget ==
    /\ ServedInAll <= MaxRunTags
    /\ \A k \in 1..Len(pages) : \A i \in 1..Len(pages[k]) : pages[k][i] \in RunRemoteNames

Fetching == rvPc = "fetching"

InitVersions ==
    /\ rvPc = "ready" /\ cache = NoCache /\ cacheBefore = NoCache /\ now = 0 /\ runs = 0
    /\ inv = NoInvocation /\ displayed = NoCache /\ servedBefore = 0
    /\ FetchIdle /\ CmpIdle /\ GrpIdle /\ ParseIdle

\* the variables of FetchTags at its call (p = "start") or when it is not called
FetchEntry(p, existing, options) ==
    /\ pc' = p /\ existingTags' = existing /\ opts' = options
    /\ minVersion' = NoVersion /\ allTags' = <<>> /\ page' = 0
    /\ allExistingFound' = FALSE /\ tags' = <<>> /\ idx' = 0 /\ existingCount' = 0
    /\ resp' = NoResponse /\ ctxDone' = FALSE /\ retTags' = <<>> /\ retErr' = "none"
    /\ requests' = <<>> /\ pages' = <<>>

\* the fetch branch entered: existingTags from the cache, options from the flags
StartFetch ==
    /\ \E flags \in FlagChoices :
          FetchEntry("start", ExistingTagsOf(cache), FlagOptions(flags))
    /\ displayed' = NoCache
    /\ rvPc' = "fetching"

\* runVersions ending without a fetch, `shown` handed to displayVersions
EndWithoutFetch(shown) ==
    /\ FetchEntry("idle", {}, NoOptions)
    /\ displayed' = shown
    /\ rvPc' = "ended"

\* runVersions up to the call of FetchTags, or to its end when nothing is fetched
RunStart ==
    /\ rvPc \in {"ready", "ended"}
    /\ runs < MaxRuns
    /\ runs' = runs + 1
    /\ now' = now + 1
    /\ servedBefore' = ServedInAll
    /\ cacheBefore' = cache
    /\ \E update \in BOOLEAN, loadErr \in BOOLEAN :
          IF loadErr
          THEN /\ inv' = [update |-> update, loadErr |-> TRUE,
                          prompted |-> FALSE, answer |-> <<>>]
               /\ EndWithoutFetch(NoCache)
          ELSE IF update \/ ~cache.exists
          THEN /\ inv' = [update |-> update, loadErr |-> FALSE,
                          prompted |-> FALSE, answer |-> <<>>]
               /\ StartFetch
          ELSE \E answer \in AnswerChoices :
                  /\ inv' = [update |-> update, loadErr |-> FALSE,
                             prompted |-> TRUE, answer |-> answer]
                  /\ IF askForUpdate(answer) THEN StartFetch ELSE EndWithoutFetch(cache)
    /\ UNCHANGED <<cache, cmpVars, grpVars, parseVars>>

\* runVersions from the return of FetchTags: parse, merge, group, save, display;
\* the locals of the returned FetchTags call are gone
RunFinish ==
    /\ Fetching /\ pc = "done"
    /\ LET merged == MergeVersions(CatalogVersions(cacheBefore), NewVersions(retTags, now))
       IN  \E order \in Perms(GroupKeys(merged)), saved \in BOOLEAN :
              LET versionsData == [exists |-> TRUE, FetchedAt |-> now,
                                   Groups |-> GroupVersions(merged, order)]
              IN  /\ cache' = IF saved THEN versionsData ELSE cache
                  /\ displayed' = versionsData
    /\ rvPc' = "ended"
    /\ minVersion' = NoVersion /\ allTags' = <<>> /\ page' = 0
    /\ allExistingFound' = FALSE /\ tags' = <<>> /\ idx' = 0 /\ existingCount' = 0
    /\ resp' = NoResponse /\ ctxDone' = FALSE
    /\ UNCHANGED <<cacheBefore, now, runs, inv, servedBefore, pc, existingTags, opts,
                   retTags, retErr, requests, pages, cmpVars, grpVars, parseVars>>

NextVersions ==
    \/ RunStart
    \/ Fetching /\ ResolveOptions
    \/ Fetching /\ DeadlineFires
    \/ Fetching /\ CheckDeadline
    \/ Fetching /\ IssueRequest
    \/ Fetching /\ ResponseError
    \/ Fetching /\ ResponseArrives /\ WithinRunBudget'
    \/ Fetching /\ ProcessTag
    \/ Fetching /\ AfterPage
    \/ RunFinish

SpecVersions == InitVersions /\ [][NextVersions]_vars

(***************************************************************************)
(* Claims about the `versions` command                                     *)
(***************************************************************************)
\* the invocation has returned
Ended == rvPc = "ended"

\* the invocation called FetchTags
Fetched == pc # "idle"

\* C11: the persisted catalog never contains two versions with the same tag,
\* whatever the remote endpoint serves, also when it serves one tag name on
\* more than one page of a single fetch.
C11_CatalogTagsUnique == DistinctTags(CatalogTagSeq(cache))

\* the typed lines that mean y or yes
YesAnswers == {<<"y", "\n">>, <<" ", "Y", "E", "S", "\n">>}

AnsweredYes == inv.prompted /\ inv.answer \in YesAnswers

Declined == inv.prompted /\ inv.answer \notin YesAnswers

\* the prompt is shown only when a cache exists and --update is not set; after
\* a declined prompt no page is requested, the cache file is as it was and the
\* cached catalog is the one displayed
PromptAndDecline ==
    /\ inv.prompted => (cacheBefore.exists /\ ~inv.update)
    /\ (cacheBefore.exists /\ ~inv.update /\ Declined) =>
            /\ ~Fetched /\ requests = <<>>
            /\ cache = cacheBefore
            /\ Ended /\ displayed = cacheBefore

C15_FetchedAtOfLastGoodRefresh ==
    cache.FetchedAt # cacheBefore.FetchedAt =>
        /\ Ended /\ Fetched
        /\ retErr = "nil"
        /\ cache.FetchedAt = now

LivePages ==
    {<<>>, <<go1_9>>, <<weekly, go1_9>>, <<go1_22_0>>, <<go1_22_0, weekly>>}

LiveOptionChoices ==
    [MinVersion : {<<>>, go1_22, latest}, MinYear : {0}, AllVersions : {FALSE}]

InitLive ==
    /\ pc = "start"
    /\ existingTags = {go1_22_0}
    /\ opts \in LiveOptionChoices
    /\ FetchLocalsUnset
    /\ CmpIdle /\ GrpIdle /\ RestIdle

\* top of the loop: default, then client.Repositories.ListTags is called
LiveIssueRequest ==
    /\ pc = "loop"
    /\ ~ctxDone
    /\ pc' = "inflight"
    /\ UNCHANGED <<existingTags, opts, minVersion, allTags, page, allExistingFound,
                   tags, idx, existingCount, resp, ctxDone, retTags, retErr, requests,
                   pages, cmpVars, grpVars, restVars>>

\* ListTags returns a response; the endpoint may always serve a non-empty page
\* and report the next page
LiveResponseArrives ==
    /\ pc = "inflight"
    /\ ~ctxDone
    /\ \E status \in {StatusOK, 202},
          served \in LivePages,
          next \in {0, IF page < MaxLivePage THEN page + 1 ELSE MaxLivePage} :
          /\ Len(served) <= PerPage
          /\ status # StatusOK => served = <<>> /\ next = 0
          /\ resp' = [err |-> "nil", StatusCode |-> status, NextPage |-> next]
          /\ IF ~StatusGood(resp')
             THEN /\ Return(FailureResult(allTags, "BadStatus"))
                  /\ UNCHANGED <<tags, idx, existingCount>>
             ELSE /\ tags' = served
                  /\ idx' = 1
                  /\ existingCount' = 0
                  /\ IF Len(served) = 0
                     THEN Return([tags |-> allTags, err |-> "nil"])
                     ELSE pc' = "process" /\ UNCHANGED <<retTags, retErr>>
    /\ UNCHANGED <<existingTags, opts, minVersion, allTags, page, allExistingFound,
                   ctxDone, requests, pages, cmpVars, grpVars, restVars>>

NextLive ==
    \/ ResolveOptions
    \/ DeadlineFires
    \/ CheckDeadline
    \/ LiveIssueRequest
    \/ ResponseError
    \/ LiveResponseArrives
    \/ ProcessTag
    \/ AfterPage

\* the steps of the goroutine running FetchTags
ProgramStep ==
    ResolveOptions \/ CheckDeadline \/ LiveIssueRequest \/ ProcessTag \/ AfterPage

\* a page request completing, with a response or with a failure
RequestCompletes == LiveResponseArrives \/ ResponseError

\* the goroutine keeps running, every page request completes, and the timer of
\* context.WithTimeout fires
SpecLive ==
    /\ InitLive /\ [][NextLive]_vars
    /\ WF_vars(ProgramStep)
    /\ WF_vars(RequestCompletes)
    /\ WF_vars(DeadlineFires)

(***************************************************************************)
(* Claims about the termination of FetchTags                               *)
(***************************************************************************)
\* C17: every FetchTags call eventually returns, provided every page request
\* eventually completes and the overall deadline eventually fires, also when
\* the endpoint keeps serving non-empty pages of unknown tags and always
\* reports a next page.
C17_FetchTagsReturns == <>(pc = "done")

\* the call ended by the deadline after pages of unknown tags that each
\* announced a next page
C17_Witness ==
    /\ pc = "done" /\ retErr = "Timeout"
    /\ page = MaxLivePage
    /\ tags # <<>> /\ ~AllKnown(tags)
    /\ resp.NextPage # 0

=============================================================================
